---- MODULE Spec2Model ----
(***************************************************************************)
(* rspamd_expression: the Lua binding of the rule expression engine         *)
(* (src/src/lua/lua_expression.c) together with the engine it drives.       *)
(*                                                                          *)
(* The binding (lua_expr_create, lua_atom_parse, lua_atom_process,          *)
(* lua_expr_process, lua_expr_process_traced, lua_expr_to_string,           *)
(* lua_expr_atoms) is translated from the C source.  The engine behind      *)
(* expression.h (rspamd_parse_expression, rspamd_process_expression,        *)
(* rspamd_process_expression_track, rspamd_expression_tostring,             *)
(* rspamd_expression_atom_foreach) is not part of the sources at hand and   *)
(* is written down from the specification, sections 4.1 to 4.4.             *)
(*                                                                          *)
(* Text is a sequence of one-character strings.  A Lua number is kept in    *)
(* halves (the integer h stands for h/2), so that the conversion of a       *)
(* lua_Number to a gint can be modelled as the truncation it is.            *)
(***************************************************************************)
EXTENDS Integers, Sequences, FiniteSets, TLC

VARIABLES e, ret, frames

vars == <<e, ret, frames>>

(************************** bounds of the model ****************************)
\* longest expression line handed to rspamd_expression.create
MaxLen == 4
\* deepest nesting of evaluations (a callback calling expr:process again)
MaxDepth == 2
\* longest expression line in the re-entrant specification
NestLen == 3

(******************************* text **************************************)
AtomChars == {"A", "B"}
OpChars == {"!", "&", "|", "(", ")"}
Chars == AtomChars \cup OpChars \cup {" "}

LinesUpTo(n) == UNION {[1..k -> Chars] : k \in 0..n}

NULL == "NULL"

(************************ rspamd_expression_atom_t *************************)
\* str/len as set by lua_atom_parse; idx is the atom's identity (its address),
\* numbered in textual order; priority is filled by the engine.
NoAtom == [str |-> <<>>, len |-> 0, idx |-> 0, priority |-> 0]

(***************************** AST nodes ***********************************)
NullNode == [op |-> "null", atom |-> NoAtom, kids |-> <<>>]
AtomNode(a) == [op |-> "atom", atom |-> a, kids |-> <<>>]
NotNode(c) == [op |-> "not", atom |-> NoAtom, kids |-> <<c>>]
GroupNode(c) == [op |-> "group", atom |-> NoAtom, kids |-> <<c>>]
AndNode(l, r) == [op |-> "and", atom |-> NoAtom, kids |-> <<l, r>>]
OrNode(l, r) == [op |-> "or", atom |-> NoAtom, kids |-> <<l, r>>]

RECURSIVE Leaves(_)
Leaves(n) ==
  CASE n.op = "atom" -> <<n.atom>>
    [] n.op \in {"not", "group"} -> Leaves(n.kids[1])
    [] n.op \in {"and", "or"} -> Leaves(n.kids[1]) \o Leaves(n.kids[2])
    [] OTHER -> <<>>

(************************* the Lua parse callback **************************)
\* What the registered parse function does with the text it is handed: it
\* claims the first character as the token ("tok"), returns a value that is
\* not a string ("nonstring"), or raises a Lua error ("raise"), per letter.
ParseCallbacks ==
  {cb \in [AtomChars -> {"tok", "nonstring", "raise"}] : cb["A"] = "tok"}

\* lua_pcall of the parse callback on the remaining text
CallParse(cb, rest) ==
  LET c == Head(rest) IN
  IF c \in AtomChars
  THEN CASE cb[c] = "tok" -> [status |-> "ok", type |-> "string", tok |-> <<c>>]
         [] cb[c] = "nonstring" -> [status |-> "ok", type |-> "nil", tok |-> <<>>]
         [] OTHER -> [status |-> "error", type |-> "string", tok |-> <<>>]
  ELSE [status |-> "ok", type |-> "nil", tok |-> <<>>]

\* lua_atom_parse: NULL without an error when the callback raised, NULL with
\* "cannot parse lua atom" when it returned no string, else the atom
lua_atom_parse(line, ud) ==
  LET r == CallParse(ud.parse_idx, line) IN
  IF r.status # "ok"
  THEN [atom |-> NoAtom, isnull |-> TRUE, err |-> NULL]
  ELSE IF r.type # "string"
  THEN [atom |-> NoAtom, isnull |-> TRUE, err |-> "cannot parse lua atom"]
  ELSE [atom |-> [NoAtom EXCEPT !.str = r.tok, !.len = Len(r.tok)],
        isnull |-> FALSE, err |-> NULL]

(***************************** lua_atom_subr *******************************)
\* lua_atom_subr with a priority function set
lua_atom_subr_Priority ==
  [parse |-> "lua_atom_parse", process |-> "lua_atom_process",
   priority |-> "by_letter", destroy |-> NULL]

lua_atom_subr ==
  [parse |-> "lua_atom_parse", process |-> "lua_atom_process",
   priority |-> NULL, destroy |-> NULL]

(********************* the engine: rspamd_parse_expression *****************)
\* An atom's priority: the provider's hint, 0 (the zeroed allocation of
\* lua_atom_parse) when the provider has no priority function.
\* "by_letter" is a priority function that makes "A" dearer than "B".
AtomPriority(subr, atom) ==
  IF subr.priority = NULL THEN atom.priority
  ELSE IF atom.str = <<"A">> THEN 1 ELSE 0

RECURSIVE SkipWs(_, _)
SkipWs(line, p) ==
  IF p <= Len(line) /\ line[p] = " " THEN SkipWs(line, p + 1) ELSE p

Fail(msg, p, atoms) ==
  [ok |-> FALSE, err |-> msg, node |-> NullNode, pos |-> p, atoms |-> atoms]
Ok(n, p, atoms) ==
  [ok |-> TRUE, err |-> NULL, node |-> n, pos |-> p, atoms |-> atoms]

RECURSIVE ParseOr(_, _, _, _, _)
RECURSIVE ParseOrRest(_, _, _, _)
RECURSIVE ParseAnd(_, _, _, _, _)
RECURSIVE ParseAndRest(_, _, _, _)
RECURSIVE ParseUnary(_, _, _, _, _)
RECURSIVE ParsePrimary(_, _, _, _, _)

\* the atom the provider claimed at p, numbered and given its priority
TakeAtom(a, p, atoms, subr) ==
  IF a.isnull \/ a.atom.len = 0
  THEN Fail(IF a.err # NULL THEN a.err
            ELSE "cannot parse atom: callback function failed", p, atoms)
  ELSE LET at == [a.atom EXCEPT !.idx = Len(atoms) + 1,
                                !.priority = AtomPriority(subr, a.atom)] IN
       Ok(AtomNode(at), p + at.len, Append(atoms, at))

\* the ')' that must close the group whose inside parsed as r
CloseGroup(line, r) ==
  LET q == SkipWs(line, r.pos) IN
  IF ~r.ok THEN r
  ELSE IF q > Len(line) \/ line[q] # ")"
  THEN Fail("syntax error: unmatched parenthesis", q, r.atoms)
  ELSE Ok(GroupNode(r.node), q + 1, r.atoms)

\* Primary := '(' Or ')' | Atom ; the atom's extent is the provider's
ParsePrimary(line, p0, atoms, subr, ud) ==
  LET p == SkipWs(line, p0) IN
  IF p > Len(line) THEN Fail("syntax error: missing operand", p, atoms)
  ELSE IF line[p] = "("
  THEN CloseGroup(line, ParseOr(line, p + 1, atoms, subr, ud))
  ELSE IF line[p] \in OpChars
  THEN Fail("syntax error: missing operand", p, atoms)
  ELSE TakeAtom(lua_atom_parse(SubSeq(line, p, Len(line)), ud), p, atoms, subr)

Negate(r) == IF r.ok THEN Ok(NotNode(r.node), r.pos, r.atoms) ELSE r

\* Unary := '!' Unary | Primary
ParseUnary(line, p0, atoms, subr, ud) ==
  LET p == SkipWs(line, p0) IN
  IF p <= Len(line) /\ line[p] = "!"
  THEN Negate(ParseUnary(line, p + 1, atoms, subr, ud))
  ELSE ParsePrimary(line, p, atoms, subr, ud)

Join(op, left, r) ==
  IF r.ok
  THEN Ok([op |-> op, atom |-> NoAtom, kids |-> <<left.node, r.node>>],
          r.pos, r.atoms)
  ELSE r

\* And := Unary ('&' Unary)*
ParseAndRest(line, left, subr, ud) ==
  LET p == SkipWs(line, left.pos) IN
  IF left.ok /\ p <= Len(line) /\ line[p] = "&"
  THEN ParseAndRest(line,
         Join("and", left, ParseUnary(line, p + 1, left.atoms, subr, ud)),
         subr, ud)
  ELSE left

ParseAnd(line, p, atoms, subr, ud) ==
  ParseAndRest(line, ParseUnary(line, p, atoms, subr, ud), subr, ud)

\* Or := And ('|' And)*
ParseOrRest(line, left, subr, ud) ==
  LET p == SkipWs(line, left.pos) IN
  IF left.ok /\ p <= Len(line) /\ line[p] = "|"
  THEN ParseOrRest(line,
         Join("or", left, ParseAnd(line, p + 1, left.atoms, subr, ud)),
         subr, ud)
  ELSE left

ParseOr(line, p, atoms, subr, ud) ==
  ParseOrRest(line, ParseAnd(line, p, atoms, subr, ud), subr, ud)

(*************** build-time reordering by priority (engine) ****************)
\* the cost of an operand: the sum of the priorities of its atoms
RECURSIVE NodePriority(_)
NodePriority(n) ==
  CASE n.op = "atom" -> n.atom.priority
    [] n.op \in {"not", "group"} -> NodePriority(n.kids[1])
    [] n.op \in {"and", "or"} -> NodePriority(n.kids[1]) + NodePriority(n.kids[2])
    [] OTHER -> 0

\* the operands of one conjunction or disjunction, left to right
RECURSIVE Operands(_, _)
Operands(n, op) ==
  IF n.op = op THEN Operands(n.kids[1], op) \o <<n.kids[2]>> ELSE <<n>>

\* x placed behind every element that is not dearer than it: a stable insert
RECURSIVE InsertStable(_, _)
InsertStable(sorted, x) ==
  IF sorted = <<>> THEN <<x>>
  ELSE IF NodePriority(sorted[Len(sorted)]) <= NodePriority(x)
  THEN Append(sorted, x)
  ELSE Append(InsertStable(SubSeq(sorted, 1, Len(sorted) - 1), x),
              sorted[Len(sorted)])

RECURSIVE SortStable(_)
SortStable(ops) ==
  IF ops = <<>> THEN <<>>
  ELSE InsertStable(SortStable(SubSeq(ops, 1, Len(ops) - 1)), ops[Len(ops)])

RECURSIVE Chain(_, _)
Chain(ops, op) ==
  IF Len(ops) = 1 THEN ops[1]
  ELSE [op |-> op, atom |-> NoAtom,
        kids |-> <<Chain(SubSeq(ops, 1, Len(ops) - 1), op), ops[Len(ops)]>>]

RECURSIVE Reorder(_)
Reorder(n) ==
  CASE n.op = "not" -> NotNode(Reorder(n.kids[1]))
    [] n.op = "group" -> GroupNode(Reorder(n.kids[1]))
    [] n.op \in {"and", "or"} ->
         LET ops == Operands(n, n.op)
             done == [i \in 1..Len(ops) |-> Reorder(ops[i])] IN
         Chain(SortStable(done), n.op)
    [] OTHER -> n

NullExpr == [ast |-> NullNode, atoms |-> <<>>, subr |-> lua_atom_subr]

\* the end of the parse: nothing but blanks may follow the expression, whose
\* operands are then put in their order of evaluation
FinishParse(line, r, subr) ==
  LET q == SkipWs(line, r.pos) IN
  IF ~r.ok THEN [ok |-> FALSE, err |-> r.err, expr |-> NullExpr]
  ELSE IF q <= Len(line)
  THEN [ok |-> FALSE,
        err |-> IF line[q] = ")" THEN "syntax error: unmatched parenthesis"
                ELSE "syntax error: trailing input",
        expr |-> NullExpr]
  ELSE [ok |-> TRUE, err |-> NULL,
        expr |-> [ast |-> Reorder(r.node), atoms |-> r.atoms, subr |-> subr]]

\* rspamd_parse_expression: the whole line or an error with a message
rspamd_parse_expression(line, subr, ud) ==
  IF SkipWs(line, 1) > Len(line)
  THEN [ok |-> FALSE, err |-> "syntax error: empty expression", expr |-> NullExpr]
  ELSE FinishParse(line, ParseOr(line, 1, <<>>, subr, ud), subr)

(***************************** struct lua_expression ***********************)
\* parse_idx and process_idx reference the two callbacks in the registry;
\* isnull is the Lua value nil in the place of the userdata
NoCallback == [c \in AtomChars |-> "tok"]
NullLuaExpr == [isnull |-> TRUE, expr |-> NullExpr, parse_idx |-> NoCallback]

\* CreateResult without the test of rspamd_parse_expression's result
CreateResult_Unchecked(ud, r) ==
  [e |-> [ud EXCEPT !.isnull = FALSE, !.expr = r.expr], err |-> NULL]

\* the two values lua_expr_create returns after the parse: (nil, message)
\* or (expr, nil)
CreateResult(ud, r) ==
  IF ~r.ok THEN [e |-> NullLuaExpr, err |-> r.err]
  ELSE [e |-> [ud EXCEPT !.isnull = FALSE, !.expr = r.expr], err |-> NULL]

\* lua_expr_create(line, {parse_func, process_func}, pool)
\* args: types of the three arguments and of the two table entries
lua_expr_create(args) ==
  IF args.line_type # "string" \/ args.tbl_type # "table" \/ ~args.pool_ok
  THEN [e |-> NullLuaExpr, err |-> "bad arguments"]
  ELSE IF args.parse_type # "function"
  THEN [e |-> NullLuaExpr, err |-> "bad parse callback"]
  ELSE IF args.process_type # "function"
  THEN [e |-> NullLuaExpr, err |-> "bad process callback"]
  ELSE CreateResult([NullLuaExpr EXCEPT !.parse_idx = args.parse_func],
         rspamd_parse_expression(args.line, lua_atom_subr,
           [NullLuaExpr EXCEPT !.parse_idx = args.parse_func]))

(************************ the Lua process callback *************************)
\* What process_func(token, input) does: it raises, or returns the number
\* the input holds for the token (h halves).
\* the numbers tried: 0, 0.5, 1 and 1.5
LuaNumbers == {0, 1, 2, 3}
CbOutcomes ==
  {[status |-> "error", h |-> 0]} \cup {[status |-> "ok", h |-> x] : x \in LuaNumbers}
Contexts == [AtomChars -> CbOutcomes]

CallProcess(token, input) == input[token[1]]

\* (gint) of a lua_Number: the fraction is dropped, towards zero
ToGint(h) == IF h >= 0 THEN h \div 2 ELSE 0 - ((0 - h) \div 2)

\* StackValue with the index taken from the bottom of the stack, not from
\* the running function's frame
StackValue_Bottom(L, index) == L[1].args[index]

\* lua_pushvalue (e->L, GPOINTER_TO_INT (input)): the slot of the running
\* C function's frame, which is the innermost evaluation's
StackValue(L, index) == L[Len(L)].args[index]

\* lua_atom_process returning -1 when the callback raised
lua_atom_process_ErrNeg(L, input, atom) ==
  LET r == CallProcess(SubSeq(atom.str, 1, atom.len), StackValue(L, input)) IN
  IF r.status # "ok" THEN 0 - 1 ELSE ToGint(r.h)

\* lua_atom_process with the test of lua_pcall inverted
lua_atom_process_Inverted(L, input, atom) ==
  LET r == CallProcess(SubSeq(atom.str, 1, atom.len), StackValue(L, input)) IN
  IF r.status = "ok" THEN 0 ELSE ToGint(r.h)

\* lua_atom_process: 0 when the callback raised, else its number as a gint
lua_atom_process(L, input, atom) ==
  LET r == CallProcess(SubSeq(atom.str, 1, atom.len), StackValue(L, input)) IN
  IF r.status # "ok" THEN 0 ELSE ToGint(r.h)

(****************** the engine: rspamd_process_expression ******************)
Flags == SUBSET {"WEIGHTED", "NO_SHORTCIRCUIT"}

Abs(x) == IF x < 0 THEN 0 - x ELSE x
MinMagnitude(x, y) == IF Abs(y) < Abs(x) THEN y ELSE x
Bool(b) == IF b THEN 1 ELSE 0

\* The walk of the tree over the atom results obtained so far (ans, in
\* invocation order).  It stops (blocked) at the first atom whose result is
\* not there yet (need).  calls: the atoms invoked; track: the trace array.
WalkStart(ans) ==
  [ans |-> ans, calls |-> <<>>, track |-> <<>>, blocked |-> FALSE,
   need |-> NoAtom, val |-> 0]

RECURSIVE Walk(_, _, _, _)
Walk(n, flags, tracked, st) ==
  IF st.blocked THEN st
  ELSE CASE n.op = "atom" ->
         IF st.ans = <<>>
         THEN [st EXCEPT !.blocked = TRUE, !.need = n.atom]
         ELSE [st EXCEPT !.val = Head(st.ans), !.ans = Tail(st.ans),
                         !.calls = Append(st.calls, n.atom),
                         !.track = IF tracked THEN Append(st.track, n.atom)
                                   ELSE st.track]
    [] n.op = "group" -> Walk(n.kids[1], flags, tracked, st)
    [] n.op = "not" ->
         LET c == Walk(n.kids[1], flags, tracked, st) IN
         IF c.blocked THEN c
         ELSE [c EXCEPT !.val = IF "WEIGHTED" \in flags THEN 0 - c.val
                                ELSE Bool(c.val = 0)]
    [] n.op = "and" ->
         LET l == Walk(n.kids[1], flags, tracked, st) IN
         IF l.blocked THEN l
         ELSE IF l.val = 0 /\ "NO_SHORTCIRCUIT" \notin flags THEN l
         ELSE LET r == Walk(n.kids[2], flags, tracked, l) IN
              IF r.blocked THEN r
              ELSE [r EXCEPT !.val = IF "WEIGHTED" \in flags
                                     THEN MinMagnitude(l.val, r.val)
                                     ELSE Bool(l.val # 0 /\ r.val # 0)]
    [] n.op = "or" ->
         LET l == Walk(n.kids[1], flags, tracked, st) IN
         IF l.blocked THEN l
         ELSE IF l.val # 0 /\ "NO_SHORTCIRCUIT" \notin flags
         THEN [l EXCEPT !.val = IF "WEIGHTED" \in flags THEN l.val ELSE 1]
         ELSE LET r == Walk(n.kids[2], flags, tracked, l) IN
              IF r.blocked THEN r
              ELSE [r EXCEPT !.val = IF "WEIGHTED" \in flags
                                     THEN l.val + r.val
                                     ELSE Bool(l.val # 0 \/ r.val # 0)]
    [] OTHER -> st

\* one evaluation in progress: a C function's frame on the Lua stack
\* (args: the expression, the input, the flags when given) and the atom
\* results the engine has been handed so far
Frame(args) == [args |-> args, ans |-> <<>>, incb |-> FALSE]

\* FlagsOf with the test of lua_gettop off by one: three arguments are not
\* enough for the flags to be read
FlagsOf_OffByOne(args) == IF Len(args) >= 4 THEN args[3] ELSE {}

\* flags = lua_tonumber (L, 3) when lua_gettop (L) >= 3, else 0
FlagsOf(args) == IF Len(args) >= 3 THEN args[3] ELSE {}

FrameWalk(f, tracked) ==
  Walk(f.args[1].expr.ast, FlagsOf(f.args), tracked, WalkStart(f.ans))

\* the engine runs to the end, calling subr->process for each atom it needs
RECURSIVE RunEngine(_, _)
RunEngine(L, tracked) ==
  LET f == L[Len(L)]
      w == FrameWalk(f, tracked) IN
  IF ~w.blocked THEN w
  ELSE RunEngine([L EXCEPT ![Len(L)].ans =
                     Append(f.ans, lua_atom_process(L, 2, w.need))], tracked)

AtomStrings(atoms) ==
  [i \in 1..Len(atoms) |-> SubSeq(atoms[i].str, 1, atoms[i].len)]

\* lua_expr_process: returns the number
lua_expr_process(L) ==
  LET w == RunEngine(L, FALSE) IN [res |-> w.val, calls |-> w.calls]

\* TraceTable with the loop stopping one element early
TraceTable_Short(track) == AtomStrings(SubSeq(track, 1, Len(track) - 1))

\* the loop of lua_expr_process_traced over the trace array: table[i + 1] is
\* the string of the i-th atom, for i < trace->len
TraceTable(track) == AtomStrings(track)

\* lua_expr_process_traced: returns the number and the table of atom strings
lua_expr_process_traced(L) ==
  LET w == RunEngine(L, TRUE) IN
  [res |-> w.val, trace |-> TraceTable(w.track), calls |-> w.calls]

(**************** the engine: rspamd_expression_tostring *******************)
RECURSIVE rspamd_expression_tostring(_)
rspamd_expression_tostring(n) ==
  CASE n.op = "atom" -> SubSeq(n.atom.str, 1, n.atom.len)
    [] n.op = "not" -> <<"!">> \o rspamd_expression_tostring(n.kids[1])
    [] n.op = "group" ->
         <<"(">> \o rspamd_expression_tostring(n.kids[1]) \o <<")">>
    [] n.op = "and" ->
         rspamd_expression_tostring(n.kids[1]) \o <<" ", "&", " ">> \o
         rspamd_expression_tostring(n.kids[2])
    [] n.op = "or" ->
         rspamd_expression_tostring(n.kids[1]) \o <<" ", "|", " ">> \o
         rspamd_expression_tostring(n.kids[2])
    [] OTHER -> <<>>

\* lua_expr_to_string pushing one byte less than str->len
lua_expr_to_string_Short(le) ==
  IF ~le.isnull /\ le.expr.ast # NullNode
  THEN [isnil |-> FALSE,
        str |-> SubSeq(rspamd_expression_tostring(le.expr.ast), 1,
                       Len(rspamd_expression_tostring(le.expr.ast)) - 1)]
  ELSE [isnil |-> TRUE, str |-> <<>>]

\* lua_expr_to_string: the string, or nil without an expression
lua_expr_to_string(le) ==
  IF ~le.isnull /\ le.expr.ast # NullNode
  THEN [isnil |-> FALSE, str |-> rspamd_expression_tostring(le.expr.ast)]
  ELSE [isnil |-> TRUE, str |-> <<>>]

(*************** the engine: rspamd_expression_atom_foreach ****************)
\* lua_exr_atom_cb without the increment of idx
lua_exr_atom_cb_NoIncrement(tok, cbdata) ==
  [tbl |-> [i \in DOMAIN cbdata.tbl \cup {cbdata.idx} |->
              IF i = cbdata.idx THEN tok ELSE cbdata.tbl[i]],
   idx |-> cbdata.idx]

\* lua_exr_atom_cb: table[idx] = token; idx++
lua_exr_atom_cb(tok, cbdata) ==
  [tbl |-> [i \in DOMAIN cbdata.tbl \cup {cbdata.idx} |->
              IF i = cbdata.idx THEN tok ELSE cbdata.tbl[i]],
   idx |-> cbdata.idx + 1]

\* the callback once per atom of the flattened list, in textual order
RECURSIVE rspamd_expression_atom_foreach(_, _)
rspamd_expression_atom_foreach(atoms, cbdata) ==
  IF atoms = <<>> THEN cbdata
  ELSE rspamd_expression_atom_foreach(
         Tail(atoms),
         lua_exr_atom_cb(SubSeq(Head(atoms).str, 1, Head(atoms).len), cbdata))

\* lua_expr_atoms: a new table filled from index 1, or nil
lua_expr_atoms(le) ==
  IF ~le.isnull /\ le.expr.ast # NullNode
  THEN [isnil |-> FALSE,
        tbl |-> rspamd_expression_atom_foreach(
                  le.expr.atoms, [tbl |-> <<>>, idx |-> 1]).tbl]
  ELSE [isnil |-> TRUE, tbl |-> <<>>]

(************************** the state machine ******************************)
\* e: the expression object the script holds (nil before create and after a
\* failed create); ret: what the last call returned, with the arguments it
\* was given; frames: the evaluations in progress, innermost last.
ZeroInput == [c \in AtomChars |-> [status |-> "ok", h |-> 0]]
NoRet ==
  [kind |-> "none", isnil |-> TRUE, err |-> NULL, res |-> 0, trace |-> <<>>,
   calls |-> <<>>, tbl |-> <<>>, str |-> <<>>, line |-> <<>>, cb |-> NoCallback,
   input |-> ZeroInput, flags |-> {}]

Init == e = NullLuaExpr /\ ret = NoRet /\ frames = <<>>

CreateArgs(line, parse_func, kind) ==
  [line_type |-> IF kind = "badargs" THEN "nil" ELSE "string",
   tbl_type |-> "table", pool_ok |-> TRUE,
   parse_type |-> IF kind = "badparse" THEN "nil" ELSE "function",
   process_type |-> IF kind = "badprocess" THEN "nil" ELSE "function",
   line |-> line, parse_func |-> parse_func]

\* expr, err = rspamd_expression.create(line, {parse_func, process_func}, pool)
\* (a rule's expression is built once, then evaluated many times)
Create(lines) ==
  /\ ret = NoRet /\ e.isnull /\ frames = <<>>
  /\ \E line \in lines, pf \in ParseCallbacks,
        kind \in {"good", "badargs", "badparse", "badprocess"} :
       LET r == lua_expr_create(CreateArgs(line, pf, kind)) IN
       /\ kind # "good" => line = <<>> /\ pf = NoCallback
       /\ e' = r.e
       /\ ret' = [NoRet EXCEPT !.kind = "create", !.isnil = r.e.isnull,
                               !.err = r.err, !.line = line, !.cb = pf]
  /\ UNCHANGED frames

\* the arguments of expr:process(input [, flags])
ProcessArgs == {<<e, i>> : i \in Contexts} \cup
               {<<e, i, fl>> : i \in Contexts, fl \in Flags}

\* the flags the script asked for, kept with the result for the record
Asked(args) == IF Len(args) = 3 THEN args[3] ELSE {}

\* the script calls expr:process(...) or expr:process_traced(...): the
\* arguments are on the stack of a new C function frame
Call ==
  /\ ~e.isnull /\ frames = <<>>
  /\ \E args \in ProcessArgs : frames' = <<Frame(args)>>
  /\ ret' = NoRet
  /\ UNCHANGED e

\* lua_expr_process runs and returns res
Process ==
  /\ Len(frames) = 1
  /\ LET r == lua_expr_process(frames) IN
     ret' = [NoRet EXCEPT !.kind = "process", !.isnil = FALSE, !.res = r.res,
                          !.calls = r.calls, !.input = frames[1].args[2],
                          !.flags = Asked(frames[1].args)]
  /\ frames' = <<>>
  /\ UNCHANGED e

\* lua_expr_process_traced runs and returns res, trace
ProcessTraced ==
  /\ Len(frames) = 1
  /\ LET r == lua_expr_process_traced(frames) IN
     ret' = [NoRet EXCEPT !.kind = "traced", !.isnil = FALSE, !.res = r.res,
                          !.trace = r.trace, !.calls = r.calls,
                          !.input = frames[1].args[2],
                          !.flags = Asked(frames[1].args)]
  /\ frames' = <<>>
  /\ UNCHANGED e

\* s = expr:to_string()
ExprToString ==
  /\ ~e.isnull /\ frames = <<>>
  /\ LET r == lua_expr_to_string(e) IN
     ret' = [NoRet EXCEPT !.kind = "string", !.isnil = r.isnil, !.str = r.str]
  /\ UNCHANGED <<e, frames>>

\* t = expr:atoms()
Atoms ==
  /\ ~e.isnull /\ frames = <<>>
  /\ LET r == lua_expr_atoms(e) IN
     ret' = [NoRet EXCEPT !.kind = "atoms", !.isnil = r.isnil, !.tbl = r.tbl]
  /\ UNCHANGED <<e, frames>>

CreateLine == Create(LinesUpTo(MaxLen))

Next == CreateLine \/ Call \/ Process \/ ProcessTraced \/ ExprToString \/ Atoms

Spec == Init /\ [][Next]_vars

(***************************************************************************)
(*                          the claims                                      *)
(***************************************************************************)
RECURSIVE Nodes(_)
Nodes(n) == {n} \cup UNION {Nodes(n.kids[i]) : i \in 1..Len(n.kids)}

LeafSet(n) == {Leaves(n)[i] : i \in 1..Len(Leaves(n))}
FirstLeaf(n) == Leaves(n)[1]

\* the last call was an evaluation that has returned
Evaluated == ret.kind \in {"process", "traced"}
\* process_atom was invoked for atom a during that evaluation
Invoked(a) == \E i \in 1..Len(ret.calls) : ret.calls[i].idx = a.idx
\* what the subtree n evaluates to under that evaluation's input and flags
ValueOf(n) ==
  lua_expr_process(
    <<Frame(<<[e EXCEPT !.expr.ast = n], ret.input, ret.flags>>)>>).res
\* the numbers of the atoms invoked, in the order of invocation
CallOrder == [i \in 1..Len(ret.calls) |-> ret.calls[i].idx]

\* C1: in boolean mode, an And node whose left operand evaluates to 0 invokes
\* no atom of its right operand and yields 0, unless NO_SHORTCIRCUIT is set,
\* in which case every atom of its right operand is invoked.
C1_AndShortCircuit ==
  (Evaluated /\ "WEIGHTED" \notin ret.flags) =>
    \A n \in Nodes(e.expr.ast) :
      (n.op = "and" /\ Invoked(FirstLeaf(n))) =>
        /\ ("NO_SHORTCIRCUIT" \notin ret.flags /\ ValueOf(n.kids[1]) = 0) =>
             /\ \A a \in LeafSet(n.kids[2]) : ~Invoked(a)
             /\ ValueOf(n) = 0
             /\ (n = e.expr.ast => ret.res = 0)
        /\ "NO_SHORTCIRCUIT" \in ret.flags =>
             \A a \in LeafSet(n.kids[2]) : Invoked(a)

\* an And at the root whose left operand gave 0: the right one was skipped
C1_Witness ==
  /\ Evaluated /\ ret.flags = {} /\ e.expr.ast.op = "and"
  /\ ValueOf(e.expr.ast.kids[1]) = 0
  /\ ret.res = 0
  /\ CallOrder = <<1>>

\* the expression is "A | B"
IsAorB ==
  /\ e.expr.ast.op = "or"
  /\ e.expr.ast.kids[1].op = "atom" /\ e.expr.ast.kids[1].atom.str = <<"A">>
  /\ e.expr.ast.kids[2].op = "atom" /\ e.expr.ast.kids[2].atom.str = <<"B">>

\* C2: with short-circuiting enabled, an Or node whose left operand is truthy
\* invokes no atom of its right operand and is truthy; "A | B" with A -> 1
\* gives 1 and the trace [A].
C2_OrShortCircuit ==
  (Evaluated /\ "NO_SHORTCIRCUIT" \notin ret.flags) =>
    /\ \A n \in Nodes(e.expr.ast) :
         (n.op = "or" /\ Invoked(FirstLeaf(n)) /\ ValueOf(n.kids[1]) # 0) =>
           /\ \A a \in LeafSet(n.kids[2]) : ~Invoked(a)
           /\ ValueOf(n) # 0
           /\ (n = e.expr.ast => ret.res # 0)
    /\ (IsAorB /\ ret.input["A"] = [status |-> "ok", h |-> 2]) =>
           /\ ret.res = 1
           /\ AtomStrings(ret.calls) = <<(<<"A">>)>>
           /\ (ret.kind = "traced" => ret.trace = <<(<<"A">>)>>)

\* "A | B" traced with A -> 1 and a B that would raise
C2_Witness ==
  /\ ret.kind = "traced" /\ ret.flags = {}
  /\ IsAorB
  /\ ret.input["A"] = [status |-> "ok", h |-> 2]
  /\ ret.input["B"].status = "error"
  /\ ret.res = 1 /\ ret.trace = <<(<<"A">>)>>

Count(line, c) == Cardinality({i \in 1..Len(line) : line[i] = c})
Letters(line) ==
  LET RECURSIVE F(_)
      F(i) == IF i > Len(line) THEN <<>>
              ELSE IF line[i] \in AtomChars THEN <<(<<line[i]>>)>> \o F(i + 1)
              ELSE F(i + 1) IN
  F(1)
NonBlank(line) == {i \in 1..Len(line) : line[i] # " "}
LastTok(line) == line[CHOOSE i \in NonBlank(line) : \A j \in NonBlank(line) : j <= i]
Unbalanced(line) == Count(line, "(") # Count(line, ")")
MissingOperand(line) == NonBlank(line) # {} /\ LastTok(line) \in {"&", "|", "!"}
Refused(line, cb) == \E i \in 1..Len(line) :
                        line[i] \in AtomChars /\ cb[line[i]] # "tok"
TwoAtoms(line) == \E i \in 1..(Len(line) - 2) :
                    /\ line[i] \in AtomChars /\ line[i + 1] = " "
                    /\ line[i + 2] \in AtomChars

\* every leaf an atom, every inner node with its one or two children
RECURSIVE Complete(_)
Complete(n) ==
  CASE n.op = "atom" -> n.kids = <<>> /\ n.atom.len > 0
    [] n.op \in {"not", "group"} -> Len(n.kids) = 1 /\ Complete(n.kids[1])
    [] n.op \in {"and", "or"} ->
         Len(n.kids) = 2 /\ Complete(n.kids[1]) /\ Complete(n.kids[2])
    [] OTHER -> FALSE

\* C4: a failing parse (unmatched parenthesis, empty expression, missing
\* operand, trailing input, an atom the parse callback refuses or fails on)
\* returns nil and a non-empty message, and no tree; a successful one returns
\* the expression and nil.
C4_ParseErrors ==
  ret.kind = "create" =>
    /\ ret.isnil => (e = NullLuaExpr /\ ret.err # NULL /\ ret.err # "")
    /\ ~ret.isnil =>
         /\ ret.err = NULL /\ ~e.isnull
         /\ Complete(e.expr.ast)
         /\ AtomStrings(e.expr.atoms) = Letters(ret.line)
    /\ ( \/ Unbalanced(ret.line) \/ NonBlank(ret.line) = {}
         \/ MissingOperand(ret.line) \/ TwoAtoms(ret.line)
         \/ Refused(ret.line, ret.cb) ) => ret.isnil
    /\ ret.line = <<"A", " ", "&">> =>
         ret.err = "syntax error: missing operand"

\* "A &" was refused for its missing operand
C4_Witness ==
  /\ ret.kind = "create" /\ ret.line = <<"A", " ", "&">>
  /\ ret.isnil /\ e.isnull /\ ret.err = "syntax error: missing operand"

\* the input with every failing callback replaced by one that returns 0
Zeroed(input) ==
  [c \in AtomChars |-> IF input[c].status = "error"
                       THEN [status |-> "ok", h |-> 0] ELSE input[c]]

\* C5: an atom whose process callback fails counts as 0, and the evaluation
\* goes on: it returns the number and invokes the atoms it would have, had
\* the callback returned 0.
C5_CallbackFailure ==
  Evaluated =>
    LET u == lua_expr_process(<<Frame(<<e, Zeroed(ret.input), ret.flags>>)>>) IN
    /\ ret.res = u.res
    /\ ret.calls = u.calls

\* the first atom invoked failed, and a second one was invoked after it
C5_Witness ==
  /\ Evaluated /\ Len(ret.calls) = 2
  /\ ret.input[ret.calls[1].str[1]].status = "error"
  /\ ret.input[ret.calls[2].str[1]].status = "ok"
  /\ ret.res = 1

\* the boolean valuation of the expression: an atom is true when its
\* callback returned a number other than 0
RECURSIVE Truth(_, _)
Truth(n, input) ==
  CASE n.op = "atom" -> input[n.atom.str[1]].h # 0
    [] n.op = "not" -> ~Truth(n.kids[1], input)
    [] n.op = "group" -> Truth(n.kids[1], input)
    [] n.op = "and" -> Truth(n.kids[1], input) /\ Truth(n.kids[2], input)
    [] n.op = "or" -> Truth(n.kids[1], input) \/ Truth(n.kids[2], input)
    [] OTHER -> FALSE

NoFailure(input) == \A c \in AtomChars : input[c].status = "ok"
WholeNumbers(input) == \A c \in AtomChars : input[c].h % 2 = 0

\* C6: in boolean mode the result is truthy exactly when the boolean
\* valuation of the expression over the atoms' results is true, with and
\* without NO_SHORTCIRCUIT.
C6_BooleanValuation ==
  (Evaluated /\ "WEIGHTED" \notin ret.flags /\ NoFailure(ret.input)) =>
    (ret.res # 0 <=> Truth(e.expr.ast, ret.input))

\* C6, for callbacks that return whole numbers only
C6_WholeNumbers ==
  (Evaluated /\ "WEIGHTED" \notin ret.flags /\ NoFailure(ret.input)
     /\ WholeNumbers(ret.input)) =>
    (ret.res # 0 <=> Truth(e.expr.ast, ret.input))

\* C7: atoms() lists every atom leaf once, in textual order, whatever was
\* evaluated before, and invokes no process callback.
C7_AtomsListing ==
  ret.kind = "atoms" =>
    LET lv == Leaves(e.expr.ast) IN
    /\ ~ret.isnil
    /\ DOMAIN ret.tbl = 1..Len(lv)
    /\ \A i \in 1..Len(lv) :
         \E j \in 1..Len(lv) : lv[j].idx = i /\ ret.tbl[i] = lv[j].str
    /\ ret.tbl = Letters(rspamd_expression_tostring(e.expr.ast))
    /\ ret.calls = <<>>

\* a listing of two atoms
C7_Witness ==
  /\ ret.kind = "atoms" /\ ret.tbl = <<(<<"B">>), (<<"A">>)>>
  /\ Len(Leaves(e.expr.ast)) = 2

\* C8: the text to_string renders is accepted by create, and the expression
\* built from it evaluates like the original on every input.
C8_RoundTrip ==
  ret.kind = "string" =>
    LET again == lua_expr_create(CreateArgs(ret.str, e.parse_idx, "good")) IN
    /\ ~ret.isnil
    /\ ~again.e.isnull
    /\ \A input \in Contexts, fl \in Flags :
         lua_expr_process(<<Frame(<<again.e, input, fl>>)>>).res =
         lua_expr_process(<<Frame(<<e, input, fl>>)>>).res

\* a rendering that adds blanks the line did not have
C8_Witness ==
  /\ ret.kind = "string" /\ ret.str = <<"A", " ", "&", " ", "B">>
  /\ e.expr.ast.op = "and"

\* the tree with the priorities p gives its atoms, by their text
RECURSIVE WithPriorities(_, _)
WithPriorities(n, p) ==
  IF n.op = "atom" THEN AtomNode([n.atom EXCEPT !.priority = p[n.atom.str[1]]])
  ELSE [n EXCEPT !.kids = [i \in 1..Len(n.kids) |-> WithPriorities(n.kids[i], p)]]

Priorities == [AtomChars -> {0, 1}]

\* the operands of every conjunction and disjunction of t stand in the
\* order of their priorities, equal ones in the order of the text
StablySorted(t) ==
  \A n \in Nodes(t) :
    n.op \in {"and", "or"} =>
      LET ops == Operands(n, n.op) IN
      \A i, j \in 1..Len(ops) :
        i < j =>
          /\ NodePriority(ops[i]) <= NodePriority(ops[j])
          /\ NodePriority(ops[i]) = NodePriority(ops[j]) =>
               FirstLeaf(ops[i]).idx < FirstLeaf(ops[j]).idx

NestExprs ==
  {r.e : r \in {lua_expr_create(CreateArgs(line, NoCallback, "good")) :
                   line \in LinesUpTo(NestLen)}} \ {NullLuaExpr}

\* the inputs tried: each callback raises, or returns 0 or 1
NestContexts ==
  [AtomChars -> {[status |-> "error", h |-> 0], [status |-> "ok", h |-> 0],
                 [status |-> "ok", h |-> 2]}]

NestInit == e \in NestExprs /\ ret = NoRet /\ frames = <<>>

Top == frames[Len(frames)]

\* the script, or a process callback that is running, calls
\* expr:process_traced(input)
NestCall ==
  /\ Len(frames) < MaxDepth
  /\ frames # <<>> => Top.incb
  /\ \E i \in NestContexts : frames' = Append(frames, Frame(<<e, i>>))
  /\ ret' = NoRet
  /\ UNCHANGED e

\* the engine reaches an atom: lua_atom_process calls the process callback
AtomCall ==
  /\ frames # <<>> /\ ~Top.incb
  /\ FrameWalk(Top, TRUE).blocked
  /\ frames' = [frames EXCEPT ![Len(frames)].incb = TRUE]
  /\ UNCHANGED <<e, ret>>

\* the callback returns: lua_atom_process hands its number to the engine
AtomReturn ==
  /\ frames # <<>> /\ Top.incb
  /\ frames' = [frames EXCEPT
       ![Len(frames)].incb = FALSE,
       ![Len(frames)].ans =
          Append(Top.ans, lua_atom_process(frames, 2, FrameWalk(Top, TRUE).need))]
  /\ UNCHANGED <<e, ret>>

\* the engine is through: lua_expr_process_traced returns res, trace
NestReturn ==
  /\ frames # <<>> /\ ~Top.incb
  /\ ~FrameWalk(Top, TRUE).blocked
  /\ LET r == lua_expr_process_traced(frames) IN
     ret' = [NoRet EXCEPT !.kind = "traced", !.isnil = FALSE, !.res = r.res,
                          !.trace = r.trace, !.calls = r.calls,
                          !.input = Top.args[2], !.flags = Asked(Top.args)]
  /\ frames' = SubSeq(frames, 1, Len(frames) - 1)
  /\ UNCHANGED e

NestNext == NestCall \/ AtomCall \/ AtomReturn \/ NestReturn

SpecNested == NestInit /\ [][NestNext]_vars

\* C9: evaluations of one tree that run inside one another, each with its
\* own input, leave the tree as it was built, and each returns the number
\* and the trace it returns when run alone.
C9_Interleaved ==
  /\ \A i \in 1..Len(frames) : frames[i].args[1] = e
  /\ e \in NestExprs
  /\ ret.kind = "traced" =>
       LET alone == lua_expr_process_traced(<<Frame(<<e, ret.input>>)>>) IN
       /\ ret.res = alone.res
       /\ ret.trace = alone.trace
       /\ ret.calls = alone.calls

\* an inner evaluation has returned 1 to a callback of an outer one, whose
\* own input gives 0 everywhere
C9_Witness ==
  /\ Len(frames) = 1 /\ Top.incb
  /\ ret.kind = "traced" /\ ret.res = 1 /\ Len(ret.trace) = 2
  /\ Top.args[2] = ZeroInput

====
